---- MODULE Spec2Model ----
(***************************************************************************)
(* A model of the deet debugger: the command loop of Debugger::run         *)
(* (src/src/debugger.rs), the tracee controller Inferior                   *)
(* (src/src/inferior.rs) and the command tokenizer                         *)
(* (src/src/debugger_command.rs).                                          *)
(*                                                                         *)
(* The tracee is a small machine-code image with one-byte instructions.    *)
(* The processor executes whatever byte is in the tracee's memory, so a    *)
(* trap byte that was written (or not written back) by the debugger is     *)
(* what the tracee runs.  A 64-bit word is a tuple of 8 bytes, least       *)
(* significant first: byte k of the tuple is (word >> 8*(k-1)) & 0xff.     *)
(***************************************************************************)
EXTENDS Integers, Sequences, FiniteSets, TLC

\* ------------------------------------------------------------ bounds
\* Largest loop count a run's argv can ask of the tracee: the loop body
\* is executed MaxLoop + 1 times at most.
MaxLoop == 2
\* How many launched children may be left behind (neither killed nor
\* reaped) before the model stops producing further failed launches.
MaxLeaked == 1

\* ------------------------------------------------- program constants
\* The single-byte x86-64 trap opcode written by break and by spawn.
TRAP == 204
\* size_of::<usize>() on x86-64.
WordSize == 8

\* ------------------------------------------------------ tracee image
\* Opcodes of the tracee's one-byte instructions.
Op == [nop |-> 144, exit |-> 244, call |-> 232, work |-> 64, loop |-> 226,
       switch |-> 255, fault |-> 139]

\* Address layout of the target: text at 8..23, stack at 24..47; the rest
\* of the address space (the null page, and everything from 48) is
\* unmapped.
TextLo == 8
TextHi == 23
StackHi == 47
Entry == 14
FooFrame == 24
MainFrame == 40

Mapped == TextLo..StackHi
Text == TextLo..TextHi
WordAddrs == {a \in Mapped : a % WordSize = 0}

\* The bytes of the target's text.  13: the instruction before the entry
\* point; 14: main, calls foo; 15..16: foo, a loop; 17..21: rest of main.
TextByte(a) ==
    CASE a = 13 -> Op.exit
      [] a = 14 -> Op.call
      [] a = 15 -> Op.work
      [] a = 16 -> Op.loop
      [] a = 17 -> Op.nop
      [] a = 18 -> Op.switch
      [] a = 19 -> Op.exit
      [] a = 20 -> Op.nop
      [] a = 21 -> Op.fault
      [] OTHER  -> Op.nop

\* The initial stack: foo's frame holds main's frame pointer and the
\* return address into main (17); main's frame holds a null frame pointer.
StackByte(a) ==
    CASE a = FooFrame -> MainFrame
      [] a = FooFrame + WordSize -> 17
      [] OTHER -> 0

ImageByte(a) == IF a \in Text THEN TextByte(a) ELSE StackByte(a)

\* The address space of a freshly exec'ed child: word address -> word.
Image == [w \in WordAddrs |-> [k \in 1..WordSize |-> ImageByte(w + k - 1)]]

\* The memory of a process that is gone.
NoMem == [w \in {} |-> <<>>]

\* The byte at byte address a of memory m (a is mapped in m).
ByteAt(m, a) == m[a - (a % WordSize)][(a % WordSize) + 1]

\* ------------------------------------------------- Inferior::write_byte
\* addr & (-(size_of::<usize>()) as usize): clears the low three bits.
align_addr_to_word(addr) == addr - (addr % WordSize)

\* ptrace::read / ptrace::write succeed on a word of a live, stopped
\* tracee's mapped memory and fail otherwise (ESRCH, EIO/EFAULT).
PtraceOk(alive, m, aligned_addr) == alive /\ aligned_addr \in DOMAIN m

\* A write_byte that masks without shifting (word & 0xff): it returns the
\* lowest byte of the word whatever the offset.
ShiftMaskNoShift(word, byte_offset) == word[1]

\* A write_byte that splices without shifting: it replaces the lowest byte
\* of the word whatever the offset.
SpliceNoShift(word, byte_offset, val) == [word EXCEPT ![1] = val]

\* (word >> 8 * byte_offset) & 0xff
ShiftMask(word, byte_offset) == word[byte_offset + 1]

\* (word & !(0xff << 8 * byte_offset)) | ((val as u64) << 8 * byte_offset)
Splice(word, byte_offset, val) == [word EXCEPT ![byte_offset + 1] = val]

\* A write_byte that ignores the failure of its ptrace requests and
\* reports success.
write_byte_unchecked(alive, m, addr, val) ==
    LET aligned_addr == align_addr_to_word(addr)
        byte_offset == addr - aligned_addr
    IN  IF ~PtraceOk(alive, m, aligned_addr)
        THEN [ok |-> TRUE, orig_byte |-> 0, mem |-> m]
        ELSE [ok |-> TRUE, orig_byte |-> ShiftMask(m[aligned_addr], byte_offset),
              mem |-> [m EXCEPT ![aligned_addr] = Splice(m[aligned_addr], byte_offset, val)]]

\* The result of write_byte: ok, the byte returned, and the memory after.
\* The read and the write address the same word, so both fail or neither.
write_byte(alive, m, addr, val) ==
    LET aligned_addr == align_addr_to_word(addr)
        byte_offset == addr - aligned_addr
    IN  IF ~PtraceOk(alive, m, aligned_addr)
        THEN [ok |-> FALSE, orig_byte |-> 0, mem |-> m]
        ELSE LET word == m[aligned_addr]
                 orig_byte == ShiftMask(word, byte_offset)
                 updated_word == Splice(word, byte_offset, val)
             IN  [ok |-> TRUE, orig_byte |-> orig_byte,
                  mem |-> [m EXCEPT ![aligned_addr] = updated_word]]

\* ------------------------------------------------------------ tracee
\* Signals and the Status values of Inferior::wait.
Stopped(sig, rip) == [kind |-> "Stopped", sig |-> sig, rip |-> rip, code |-> 0]
Exited(code) == [kind |-> "Exited", sig |-> "none", rip |-> 0, code |-> code]
Signaled(sig) == [kind |-> "Signaled", sig |-> sig, rip |-> 0, code |-> 0]

Modes == {"exit", "segv", "null"}

\* The registers (and the argv-determined data) of a child at its initial
\* stop, the first instruction after execve.
InitRegs(n, mode) == [rip |-> Entry, rbp |-> MainFrame, cnt |-> n, mode |-> mode]
\* The registers of a process that is gone.
NoRegs == [rip |-> 0, rbp |-> 0, cnt |-> 0, mode |-> "exit"]

\* One instruction of the tracee: what the processor does with the byte at
\* rip.  ev is "run" (the instruction completed), "stop" (the tracee stops
\* with signal sig) or "exit".
Exec(m, r) ==
    IF r.rip \notin Text
    THEN [ev |-> "stop", sig |-> "SIGSEGV", regs |-> r]
    ELSE LET b == ByteAt(m, r.rip) IN
         CASE b = TRAP ->
                [ev |-> "stop", sig |-> "SIGTRAP", regs |-> [r EXCEPT !.rip = r.rip + 1]]
           [] b = Op.nop \/ b = Op.work ->
                [ev |-> "run", sig |-> "none", regs |-> [r EXCEPT !.rip = r.rip + 1]]
           [] b = Op.call ->
                [ev |-> "run", sig |-> "none",
                 regs |-> [r EXCEPT !.rip = r.rip + 1, !.rbp = FooFrame]]
           [] b = Op.loop ->
                [ev |-> "run", sig |-> "none",
                 regs |-> IF r.cnt > 0
                          THEN [r EXCEPT !.rip = r.rip - 1, !.cnt = r.cnt - 1]
                          ELSE [r EXCEPT !.rip = r.rip + 1, !.rbp = MainFrame]]
           [] b = Op.switch ->
                [ev |-> "run", sig |-> "none",
                 regs |-> [r EXCEPT !.rip = CASE r.mode = "exit" -> r.rip + 1
                                             [] r.mode = "segv" -> r.rip + 3
                                             [] OTHER -> 0]]
           [] b = Op.exit ->
                [ev |-> "exit", sig |-> "none", regs |-> NoRegs]
           [] b = Op.fault ->
                [ev |-> "stop", sig |-> "SIGSEGV", regs |-> r]
           [] OTHER ->
                [ev |-> "stop", sig |-> "SIGILL", regs |-> r]

\* PTRACE_SINGLESTEP followed by waitpid: one instruction, then a stop
\* (SIGTRAP when the instruction completed), or the exit of the tracee.
\* exec is the byte the processor executed (-1: the fetch faulted).
SingleStep(m, r) ==
    LET e == Exec(m, r)
        x == IF r.rip \in Text THEN ByteAt(m, r.rip) ELSE -1
    IN  CASE e.ev = "run"  -> [status |-> Stopped("SIGTRAP", e.regs.rip),
                               alive |-> TRUE, regs |-> e.regs, exec |-> x]
          [] e.ev = "stop" -> [status |-> Stopped(e.sig, e.regs.rip),
                               alive |-> TRUE, regs |-> e.regs, exec |-> x]
          [] OTHER         -> [status |-> Exited(0),
                               alive |-> FALSE, regs |-> NoRegs, exec |-> x]

\* PTRACE_CONT (the SIGCONT it injects is ignored by the tracee) followed
\* by waitpid: the tracee runs until it stops or exits.  passed collects
\* the addresses whose instruction ran to completion on the way.
RECURSIVE Resume(_, _, _)
Resume(m, r, passed) ==
    LET e == Exec(m, r) IN
    CASE e.ev = "run"  -> Resume(m, e.regs, passed \cup {r.rip})
      [] e.ev = "stop" -> [status |-> Stopped(e.sig, e.regs.rip),
                           alive |-> TRUE, regs |-> e.regs, passed |-> passed]
      [] OTHER         -> [status |-> Exited(0),
                           alive |-> FALSE, regs |-> NoRegs, passed |-> passed]

\* ---------------------------------------------------- debug information
\* The lookup surface of DwarfData over the target: foo is lines 5..6 at
\* 15..16, main is lines 9..14 at 14 and 17..21; nothing else resolves.
get_function_from_addr(addr) ==
    CASE addr \in 15..16 -> "foo"
      [] addr = 14 \/ addr \in 17..21 -> "main"
      [] OTHER -> "None"

get_line_from_addr(addr) ==
    CASE addr \in 15..16 -> addr - 10
      [] addr = 14 -> 9
      [] addr \in 17..21 -> addr - 7
      [] OTHER -> 0

\* Whether get_line_from_addr(addr) is Some.
LineKnown(addr) == addr \in 14..21

get_addr_for_line(line) ==
    CASE line \in 5..6 -> line + 10
      [] line = 9 -> 14
      [] line \in 10..14 -> line + 7
      [] OTHER -> -1

get_addr_for_function(name) ==
    CASE name = <<"f", "o", "o">> -> 15
      [] name = <<"m", "a", "i", "n">> -> 14
      [] OTHER -> -1

\* The number of lines of <target>.c read by get_file_lines.
NumLines == 14

\* ------------------------------------------------ breakpoint specs
\* A spec token is a sequence of characters.
HexDigits == <<"0", "1", "2", "3", "4", "5", "6", "7", "8", "9",
               "a", "b", "c", "d", "e", "f">>

\* char::to_lowercase on the characters the tokens use.
ToLowerChar(c) ==
    CASE c = "A" -> "a" [] c = "B" -> "b" [] c = "C" -> "c"
      [] c = "D" -> "d" [] c = "E" -> "e" [] c = "F" -> "f"
      [] c = "X" -> "x" [] OTHER -> c

to_lowercase(t) == [i \in 1..Len(t) |-> ToLowerChar(t[i])]

starts_with(t, prefix) ==
    Len(t) >= Len(prefix) /\ SubSeq(t, 1, Len(prefix)) = prefix

\* char::to_digit(radix): the digit's value, or -1.
to_digit(c, radix) ==
    LET l == ToLowerChar(c)
        ds == {i \in 1..radix : HexDigits[i] = l}
    IN  IF ds = {} THEN -1 ELSE (CHOOSE i \in ds : TRUE) - 1

RECURSIVE DigitsValue(_, _, _)
\* The value of a non-empty run of digits, or -1 when one is no digit.
DigitsValue(t, radix, acc) ==
    IF t = <<>> THEN acc
    ELSE IF to_digit(Head(t), radix) < 0 THEN -1
    ELSE DigitsValue(Tail(t), radix, acc * radix + to_digit(Head(t), radix))

\* usize::from_str_radix(t, radix).ok(): an optional "+", then at least
\* one digit; -1 is None.
from_str_radix(t, radix) ==
    LET digits == IF t # <<>> /\ Head(t) = "+" THEN Tail(t) ELSE t
    IN  IF digits = <<>> THEN -1 ELSE DigitsValue(digits, radix, 0)

\* A parse_address that funnels every spec through the base-16 parse,
\* with or without the *0x prefix.
parse_address_hex_only(addr) ==
    IF starts_with(to_lowercase(addr), <<"*", "0", "x">>)
    THEN from_str_radix(SubSeq(addr, 4, Len(addr)), 16)
    ELSE from_str_radix(addr, 16)

\* Debugger::parse_address; -1 is None.
parse_address(addr) ==
    IF starts_with(to_lowercase(addr), <<"*", "0", "x">>)
    THEN from_str_radix(SubSeq(addr, 4, Len(addr)), 16)
    ELSE IF from_str_radix(addr, 10) >= 0
    THEN get_addr_for_line(from_str_radix(addr, 10))
    ELSE get_addr_for_function(addr)

\* The spec tokens a break command is given.
Tokens == { <<"*", "0", "x", "d">>,       \* 13, the byte before the entry point
            <<"*", "0", "X", "F">>,       \* 15, the entry of foo
            <<"f", "o", "o">>,            \* 15
            <<"5">>,                      \* line 5: 15
            <<"*", "0", "x", "1", "4">>,  \* 20, the byte before the faulting load
            <<"*", "0", "x", "4", "0">>,  \* 64, not mapped
            <<"b", "a", "r">>,            \* no such function
            <<"9", "9">>,                 \* no such line
            <<"*", "0", "x", "g">> }      \* not a hex number

\* ---------------------------------------------------------- controller
\* A Breakpoint value.
Breakpoint(addr, orig_byte) == [addr |-> addr, orig_byte |-> orig_byte]

\* The least address of a non-empty set: the order in which the model
\* walks the keys of the registry (the writes touch distinct bytes, so the
\* HashMap's own order gives the same result).
MinOf(S) == CHOOSE a \in S : \A b \in S : a <= b

RECURSIVE ArmAll(_, _, _, _)
\* The loop of Inferior::new over the keys of the registry: write the trap
\* byte at each; on Ok store the byte returned as orig_byte, on Err print
\* and go on.  Yields the memory, the registry and the requests issued.
ArmAll(m, bps, todo, log) ==
    IF todo = {} THEN [mem |-> m, bps |-> bps, log |-> log]
    ELSE LET b == MinOf(todo)
             w == write_byte(TRUE, m, b, TRAP)
         IN  IF w.ok
             THEN ArmAll(w.mem, [bps EXCEPT ![b].orig_byte = w.orig_byte],
                         todo \ {b}, log \o <<"peek", "poke">>)
             ELSE ArmAll(m, bps, todo \ {b}, log \o <<"peek">>)

\* What the first waitpid after the launch can yield, and the failure of
\* the launch itself.
Outcomes == {"SpawnErr", "WaitErr", "StoppedTrap", "StoppedOther", "Exited", "Signaled"}

\* Outcomes that leave the launched child alive when Inferior::new returns.
ChildSurvives(outcome) == outcome \in {"WaitErr", "StoppedTrap", "StoppedOther"}

\* An Inferior::new that gives each tracee a registry of its own, empty
\* at the start: the breakpoints of the session are forgotten by a run.
InferiorNewForgets(bps, n, mode, outcome) ==
    [some |-> outcome = "StoppedTrap",
     mem |-> IF outcome = "StoppedTrap" THEN Image ELSE NoMem,
     bps |-> [a \in {} |-> Breakpoint(0, 0)],
     regs |-> IF outcome = "StoppedTrap" THEN InitRegs(n, mode) ELSE NoRegs,
     log |-> IF outcome = "SpawnErr" THEN <<"spawn">> ELSE <<"spawn", "wait">>,
     leak |-> IF ChildSurvives(outcome) /\ outcome # "StoppedTrap" THEN 1 ELSE 0]

\* Inferior::new: Some exactly when the first wait yields Stopped(SIGTRAP);
\* the registry is armed in that case only.  The Child value of any other
\* outcome is dropped as it is: dropping a Child neither kills nor waits.
InferiorNew(bps, n, mode, outcome) ==
    IF outcome = "StoppedTrap"
    THEN LET armed == ArmAll(Image, bps, DOMAIN bps, <<"spawn", "wait">>)
         IN  [some |-> TRUE, mem |-> armed.mem, bps |-> armed.bps,
              regs |-> InitRegs(n, mode), log |-> armed.log, leak |-> 0]
    ELSE [some |-> FALSE, mem |-> NoMem, bps |-> bps, regs |-> NoRegs,
          log |-> IF outcome = "SpawnErr" THEN <<"spawn">> ELSE <<"spawn", "wait">>,
          leak |-> IF ChildSurvives(outcome) THEN 1 ELSE 0]

\* Inferior::kill_child: Child::kill fails when the process is gone;
\* otherwise the child is killed and Child::wait reaps it.
kill_child(alive) ==
    IF alive THEN [ok |-> TRUE, log |-> <<"kill", "reap">>]
             ELSE [ok |-> FALSE, log |-> <<"kill">>]

\* The result of Inferior::cont when it returns early or panics.
ContFail(res, alive, m, r, log, a, exec) ==
    [res |-> res, status |-> Exited(0), alive |-> alive, mem |-> m, regs |-> r,
     log |-> log, hit |-> a >= 0, a |-> a, exec |-> exec, passed |-> {}]

\* ptrace::cont at the end of Inferior::cont, then wait.
ContTail(alive, m, r, log, a, exec) ==
    IF ~alive
    THEN ContFail("Err", alive, m, r, log \o <<"cont">>, a, exec)
    ELSE LET run == Resume(m, r, {})
         IN  [res |-> "Ok", status |-> run.status, alive |-> run.alive,
              mem |-> IF run.alive THEN m ELSE NoMem, regs |-> run.regs,
              log |-> log \o <<"cont", "wait">>,
              hit |-> a >= 0, a |-> a, exec |-> exec, passed |-> run.passed]

\* Inferior::cont.  wraps: whether rip - 1 wraps around (a build without
\* overflow checks) or panics (a build with them) when rip is 0; the
\* wrapped address, usize::MAX, is never a key of the registry.
cont(alive, m, r, bps, wraps) ==
    IF ~alive THEN ContFail("Err", alive, m, r, <<"getregs">>, -1, -1)
    ELSE IF r.rip = 0 /\ ~wraps THEN ContFail("Panic", alive, m, r, <<"getregs">>, -1, -1)
    ELSE LET interrupted_instru_addr == r.rip - 1 IN
         IF interrupted_instru_addr \in DOMAIN bps
         THEN LET breakpoint == bps[interrupted_instru_addr]
                  w == write_byte(alive, m, breakpoint.addr, breakpoint.orig_byte)
              IN  IF ~w.ok
                  THEN ContFail("Err", alive, m, r, <<"getregs", "peek">>,
                                interrupted_instru_addr, -1)
                  ELSE LET st == SingleStep(w.mem, [r EXCEPT !.rip = interrupted_instru_addr])
                       IN  ContTail(st.alive, IF st.alive THEN w.mem ELSE NoMem, st.regs,
                                    <<"getregs", "peek", "poke", "setregs", "step", "wait">>,
                                    interrupted_instru_addr, st.exec)
         ELSE ContTail(alive, m, r, <<"getregs">>, -1, -1)

\* ptrace::read of the word at addr: the eight bytes from addr on, which
\* must all be mapped.
ReadOk(alive, m, addr) ==
    alive /\ \A k \in 0..(WordSize - 1) : align_addr_to_word(addr + k) \in DOMAIN m
ReadWord(m, addr) == [k \in 1..WordSize |-> ByteAt(m, addr + k - 1)]

\* A word read from the tracee "as usize"; every address of the model fits
\* its two low bytes, and any larger value is an address that is not
\* mapped and that the debug information does not know.
FarAway == 65536
WordVal(word) ==
    IF \A k \in 3..WordSize : word[k] = 0 THEN word[1] + 256 * word[2] ELSE FarAway

\* A line of output.
Msg(k, n, str) == [k |-> k, n |-> n, s |-> str]

RECURSIVE WalkNewBase(_, _, _, _, _, _)
\* A walk that follows the saved frame pointer first and reads the return
\* address at [new base_ptr + 8]: it skips the caller of every frame.
WalkNewBase(m, instruction_ptr, base_ptr, out, log, seen) ==
    IF ~LineKnown(instruction_ptr) \/ get_function_from_addr(instruction_ptr) = "None"
    THEN [res |-> "Panic", out |-> out, log |-> log]
    ELSE LET func_name == get_function_from_addr(instruction_ptr)
             out1 == Append(out, Msg("frame", get_line_from_addr(instruction_ptr), func_name))
         IN  IF func_name = "main" THEN [res |-> "Ok", out |-> out1, log |-> log]
             ELSE IF <<instruction_ptr, base_ptr>> \in seen
             THEN [res |-> "Hang", out |-> out1, log |-> log]
             ELSE IF ~ReadOk(TRUE, m, base_ptr)
             THEN [res |-> "Err", out |-> out1, log |-> Append(log, "peek")]
             ELSE IF ~ReadOk(TRUE, m, WordVal(ReadWord(m, base_ptr)) + 8)
             THEN [res |-> "Err", out |-> out1, log |-> log \o <<"peek", "peek">>]
             ELSE WalkNewBase(m, WordVal(ReadWord(m, WordVal(ReadWord(m, base_ptr)) + 8)),
                              WordVal(ReadWord(m, base_ptr)),
                              out1, log \o <<"peek", "peek">>,
                              seen \cup {<<instruction_ptr, base_ptr>>})

RECURSIVE Walk(_, _, _, _, _, _)
\* The loop of Inferior::print_backtrace.  Both lookups are unwrapped, so
\* an address the debug information does not resolve panics; the walk ends
\* at main or at a failed read.  seen: the frames visited, to tell a walk
\* that never ends.
Walk(m, instruction_ptr, base_ptr, out, log, seen) ==
    IF ~LineKnown(instruction_ptr) \/ get_function_from_addr(instruction_ptr) = "None"
    THEN [res |-> "Panic", out |-> out, log |-> log]
    ELSE LET func_name == get_function_from_addr(instruction_ptr)
             out1 == Append(out, Msg("frame", get_line_from_addr(instruction_ptr), func_name))
         IN  IF func_name = "main" THEN [res |-> "Ok", out |-> out1, log |-> log]
             ELSE IF <<instruction_ptr, base_ptr>> \in seen
             THEN [res |-> "Hang", out |-> out1, log |-> log]
             ELSE IF ~ReadOk(TRUE, m, base_ptr + 8)
             THEN [res |-> "Err", out |-> out1, log |-> Append(log, "peek")]
             ELSE IF ~ReadOk(TRUE, m, base_ptr)
             THEN [res |-> "Err", out |-> out1, log |-> log \o <<"peek", "peek">>]
             ELSE Walk(m, WordVal(ReadWord(m, base_ptr + 8)), WordVal(ReadWord(m, base_ptr)),
                       out1, log \o <<"peek", "peek">>,
                       seen \cup {<<instruction_ptr, base_ptr>>})

\* Inferior::print_backtrace.
print_backtrace(alive, m, r) ==
    IF ~alive THEN [res |-> "Err", out |-> <<>>, log |-> <<"getregs">>]
    ELSE Walk(m, r.rip, r.rbp, <<>>, <<"getregs">>, {})

\* ------------------------------------------------------------- reports
RECURSIVE NearbyLines(_)
\* Debugger::print_nearby_line: the entries of target_lines (a Vec, indexed
\* from 0) at the indices given, those that exist.
NearbyLines(line_nums) ==
    IF line_nums = <<>> THEN <<>>
    ELSE (IF Head(line_nums) < NumLines
          THEN <<Msg("source", Head(line_nums), "")>> ELSE <<>>)
         \o NearbyLines(Tail(line_nums))

print_nearby_line(line_num) ==
    <<Msg("nearby", 0, "")>> \o NearbyLines(<<line_num - 1, line_num, line_num + 1>>)

\* Debugger::print_child_status.
print_child_status(st) ==
    CASE st.kind = "Exited" -> <<Msg("exited", st.code, "")>>
      [] st.kind = "Signaled" -> <<Msg("signaled", 0, st.sig)>>
      [] OTHER ->
           <<Msg("stopped", 0, st.sig)>> \o
           (IF LineKnown(st.rip) /\ get_function_from_addr(st.rip) # "None"
            THEN <<Msg("at", get_line_from_addr(st.rip), ""),
                   Msg("inside", 0, get_function_from_addr(st.rip))>>
                 \o print_nearby_line(get_line_from_addr(st.rip))
                 \o <<Msg("locals", 0, get_function_from_addr(st.rip))>>
            ELSE <<>>)

\* --------------------------------------------------------------- state
VARIABLES
    inferior,     \* Debugger.inferior: "None" or "Some"
    alive,        \* whether the child behind that handle is a live, stopped process
    regs,         \* the registers of that child
    mem,          \* the memory of that child
    leaked,       \* launched children that were dropped alive
    breakpoints,  \* Debugger.breakpoints: address -> Breakpoint
    loop,         \* the command loop: "prompt", "returned", "panicked" or "hung"
    hist,         \* what the current tracee has executed (history)
    last          \* what the last command did (history)

vars == <<inferior, alive, regs, mem, leaked, breakpoints, loop, hist, last>>

\* The registry before the first break command.
NoBreakpoints == [a \in {} |-> Breakpoint(0, 0)]

\* The history of a tracee: reg, the addresses registered when it was
\* launched; seen, those of them it has executed; missed, those whose
\* first execution was not the trap byte; rewound, those the continue
\* protocol has set the instruction pointer back to; cause, what stopped
\* it where it is: "trap" (it executed a trap byte), "signal" (any other
\* stop), "none" (it is not stopped, or there is none).
NoHist == [reg |-> {}, seen |-> {}, missed |-> {}, rewound |-> {}, cause |-> "none"]

\* The record of a command that did nothing but print.
Did(cmd, out) ==
    [cmd |-> cmd, log |-> <<>>, out |-> out, addr |-> -1, outcome |-> "none",
     contPre |-> "none", res |-> "none", status |-> Exited(0), hit |-> FALSE,
     a |-> -1, exec |-> -1, passed |-> {}, newMem |-> NoMem, preLive |-> FALSE]

Init ==
    /\ inferior = "None"
    /\ alive = FALSE
    /\ regs = NoRegs
    /\ mem = NoMem
    /\ leaked = 0
    /\ breakpoints = NoBreakpoints
    /\ loop = "prompt"
    /\ hist = NoHist
    /\ last = Did("start", <<>>)

\* The children of the debugger that are alive.
LiveChildren == leaked + (IF alive THEN 1 ELSE 0)

\* The history after a run of Inferior::cont with result c.
HistAfter(h, c) ==
    LET stepped == c.hit /\ c.exec >= 0
        rewound1 == IF stepped THEN h.rewound \cup {c.a} ELSE h.rewound
        missed1 == IF stepped /\ c.a \in h.reg \ h.seen /\ c.exec # TRAP
                   THEN h.missed \cup {c.a} ELSE h.missed
        seen1 == IF stepped THEN h.seen \cup ({c.a} \cap h.reg) ELSE h.seen
        trapped == IF c.res = "Ok" /\ c.status.kind = "Stopped" /\ c.status.sig = "SIGTRAP"
                   THEN {c.status.rip - 1} ELSE {}
    IN  [reg |-> h.reg,
         seen |-> seen1 \cup ((c.passed \cup trapped) \cap h.reg),
         missed |-> missed1 \cup ((c.passed \cap h.reg) \ seen1),
         rewound |-> rewound1,
         cause |-> IF c.res # "Ok" THEN (IF c.alive THEN h.cause ELSE "none")
                   ELSE IF trapped # {} THEN "trap"
                   ELSE IF c.status.kind = "Stopped" THEN "signal"
                   ELSE "none"]

\* The part of last that records a run of Inferior::cont.
ContRecord(base, pre, c, out) ==
    [base EXCEPT !.log = base.log \o c.log, !.out = base.out \o out,
                 !.contPre = pre, !.res = c.res, !.status = c.status,
                 !.hit = c.hit, !.a = c.a, !.exec = c.exec, !.passed = c.passed]

\* ------------------------------------------------------------ commands
\* DebuggerCommand::Run: kill the child of the handle held, launch, and
\* on Some run the continue protocol; an Err of cont panics.
CmdRun(n, mode, outcome) ==
    /\ loop = "prompt"
    /\ (ChildSurvives(outcome) /\ outcome # "StoppedTrap") => leaked < MaxLeaked
    /\ \E k \in {IF inferior = "Some" THEN kill_child(alive)
                  ELSE [ok |-> FALSE, log |-> <<>>]},
          nw \in {InferiorNew(breakpoints, n, mode, outcome)} :
       LET kout == IF inferior = "Some"
                   THEN <<Msg(IF k.ok THEN "killed" ELSE "no child to kill", 0, "")>>
                   ELSE <<>>
           base == [Did("Run", kout) EXCEPT !.log = k.log \o nw.log,
                                            !.outcome = outcome,
                                            !.newMem = nw.mem,
                                            !.preLive = alive]
       IN  IF nw.some
           THEN \E c \in {cont(TRUE, nw.mem, nw.regs, nw.bps, TRUE)} :
                    /\ inferior' = "Some"
                    /\ alive' = c.alive
                    /\ regs' = c.regs
                    /\ mem' = c.mem
                    /\ leaked' = leaked
                    /\ breakpoints' = nw.bps
                    /\ loop' = IF c.res = "Ok" THEN "prompt" ELSE "panicked"
                    /\ hist' = HistAfter([NoHist EXCEPT !.reg = DOMAIN nw.bps], c)
                    /\ last' = ContRecord(base, "stopped", c,
                                          IF c.res = "Ok" THEN print_child_status(c.status)
                                          ELSE <<Msg("panic", 0, "")>>)
           ELSE /\ inferior' = inferior
                /\ alive' = FALSE
                /\ regs' = NoRegs
                /\ mem' = NoMem
                /\ leaked' = leaked + nw.leak
                /\ breakpoints' = nw.bps
                /\ loop' = "prompt"
                /\ hist' = NoHist
                /\ last' = [base EXCEPT !.out = kout \o <<Msg("error starting", 0, "")>>]

\* DebuggerCommand::Quit (also ^D): kill the child of the handle held and
\* return from the loop.
CmdQuit ==
    /\ loop = "prompt"
    /\ LET k == IF inferior = "Some" THEN kill_child(alive)
                ELSE [ok |-> FALSE, log |-> <<>>]
       IN  /\ alive' = FALSE
           /\ regs' = NoRegs
           /\ mem' = NoMem
           /\ last' = [Did("Quit", IF k.ok THEN <<Msg("killed", 0, "")>> ELSE <<>>)
                         EXCEPT !.log = k.log, !.preLive = alive]
    /\ loop' = "returned"
    /\ UNCHANGED <<inferior, leaked, breakpoints, hist>>

\* DebuggerCommand::Continue.
CmdContinue(wraps) ==
    /\ loop = "prompt"
    /\ IF inferior = "None"
       THEN /\ last' = Did("Continue", <<Msg("no process", 0, "")>>)
            /\ UNCHANGED <<alive, regs, mem, loop, hist>>
       ELSE \E c \in {cont(alive, mem, regs, breakpoints, wraps)} :
                /\ alive' = c.alive
                /\ regs' = c.regs
                /\ mem' = c.mem
                /\ loop' = IF c.res = "Panic" THEN "panicked" ELSE "prompt"
                /\ hist' = HistAfter(hist, c)
                /\ last' = ContRecord([Did("Continue", <<>>) EXCEPT !.preLive = alive],
                                      IF alive THEN "stopped" ELSE "dead", c,
                                      CASE c.res = "Ok" -> print_child_status(c.status)
                                        [] c.res = "Err" -> <<Msg("cannot run", 0, "")>>
                                        [] OTHER -> <<Msg("panic", 0, "")>>)
    /\ UNCHANGED <<inferior, leaked, breakpoints>>

\* A Backtrace handler without the test for a tracee: it walks whatever
\* the session holds.
CmdBacktraceUnguarded ==
    /\ loop = "prompt"
    /\ \E b \in {print_backtrace(alive, mem, regs)} :
          /\ loop' = CASE b.res = "Panic" -> "panicked"
                       [] b.res = "Hang" -> "hung"
                       [] OTHER -> "prompt"
          /\ last' = [Did("Backtrace",
                          b.out \o CASE b.res = "Err" -> <<Msg("cannot print", 0, "")>>
                                     [] b.res = "Panic" -> <<Msg("panic", 0, "")>>
                                     [] OTHER -> <<>>)
                        EXCEPT !.log = b.log, !.res = b.res, !.preLive = alive]
    /\ UNCHANGED <<inferior, alive, regs, mem, leaked, breakpoints, hist>>

\* DebuggerCommand::Backtrace.
CmdBacktrace ==
    /\ loop = "prompt"
    /\ IF inferior = "None"
       THEN /\ last' = Did("Backtrace", <<Msg("no process", 0, "")>>)
            /\ loop' = loop
       ELSE \E b \in {print_backtrace(alive, mem, regs)} :
                /\ loop' = CASE b.res = "Panic" -> "panicked"
                             [] b.res = "Hang" -> "hung"
                             [] OTHER -> "prompt"
                /\ last' = [Did("Backtrace",
                                b.out \o CASE b.res = "Err" -> <<Msg("cannot print", 0, "")>>
                                           [] b.res = "Panic" -> <<Msg("panic", 0, "")>>
                                           [] OTHER -> <<>>)
                              EXCEPT !.log = b.log, !.res = b.res, !.preLive = alive]
    /\ UNCHANGED <<inferior, alive, regs, mem, leaked, breakpoints, hist>>

\* DebuggerCommand::Break with its spec token.
CmdBreak(tok) ==
    /\ loop = "prompt"
    /\ \E parsed_addr \in {parse_address(tok)} :
       LET base == [Did("Break", <<>>) EXCEPT !.addr = parsed_addr, !.preLive = alive]
       IN  IF parsed_addr < 0
           THEN /\ last' = [base EXCEPT !.out = <<Msg("invalid address", 0, "")>>]
                /\ UNCHANGED <<mem, breakpoints>>
           ELSE IF inferior = "Some"
           THEN \E w \in {write_byte(alive, mem, parsed_addr, TRAP)} :
                    IF w.ok
                    THEN /\ mem' = w.mem
                         /\ breakpoints' =
                              [a \in DOMAIN breakpoints \cup {parsed_addr} |->
                                 IF a = parsed_addr THEN Breakpoint(parsed_addr, w.orig_byte)
                                 ELSE breakpoints[a]]
                         /\ last' = [base EXCEPT !.log = <<"peek", "poke">>,
                                                 !.out = <<Msg("set while stopped", 0, "")>>]
                    ELSE /\ last' = [base EXCEPT !.log = <<"peek">>,
                                                 !.out = <<Msg("cannot set", 0, "")>>]
                         /\ UNCHANGED <<mem, breakpoints>>
           ELSE /\ breakpoints' =
                     [a \in DOMAIN breakpoints \cup {parsed_addr} |->
                        IF a = parsed_addr THEN Breakpoint(parsed_addr, 0)
                        ELSE breakpoints[a]]
                /\ last' = [base EXCEPT !.out = <<Msg("set", 0, "")>>]
                /\ UNCHANGED mem
    /\ UNCHANGED <<inferior, alive, regs, leaked, loop, hist>>

\* "br" or "break" with no spec token: DebuggerCommand::from_tokens indexes
\* tokens[1], which is out of bounds.
CmdBreakNoToken ==
    /\ loop = "prompt"
    /\ loop' = "panicked"
    /\ last' = Did("BreakNoToken", <<Msg("panic", 0, "")>>)
    /\ UNCHANGED <<inferior, alive, regs, mem, leaked, breakpoints, hist>>

\* get_next_command on ^C or on a line that is no command: print and
\* prompt again.
CmdNone ==
    /\ loop = "prompt"
    /\ last' = Did("None", <<Msg("unrecognized", 0, "")>>)
    /\ UNCHANGED <<inferior, alive, regs, mem, leaked, breakpoints, loop, hist>>

\* What a run command can meet: a child that reaches its initial stop,
\* with the behaviour its argv asks for, or a launch that fails.
Launches ==
    {<<n, mode, "StoppedTrap">> : n \in 0..MaxLoop, mode \in Modes}
    \cup {<<0, "exit", outcome>> : outcome \in Outcomes \ {"StoppedTrap"}}

Next ==
    \/ \E l \in Launches : CmdRun(l[1], l[2], l[3])
    \/ CmdQuit
    \/ \E wraps \in (IF alive /\ regs.rip = 0 THEN BOOLEAN ELSE {TRUE}) : CmdContinue(wraps)
    \/ CmdBacktrace
    \/ \E tok \in Tokens : CmdBreak(tok)
    \/ CmdBreakNoToken
    \/ CmdNone

Spec == Init /\ [][Next]_vars

\* ============================================= write_byte on its own
\* write_byte as a function of the tracee's memory, the address and the
\* value: the memory is two words at the addresses of the text, each drawn
\* from a pool; the addresses reach one byte below and above them, where
\* ptrace fails; a tracee that is gone makes every request fail.
MaxPattern == 2

PatternWord(p) == [k \in 1..WordSize |-> (p * (k + 16)) % 256]

PoolWords ==
    {PatternWord(p) : p \in 0..MaxPattern}
    \cup {Image[w] : w \in {a \in WordAddrs : a \in Text}}

PoolMems ==
    {[w \in {a \in WordAddrs : a \in Text} |-> IF w = TextLo THEN w1 ELSE w2] :
        w1 \in PoolWords, w2 \in PoolWords}

WriteAddrs == (TextLo - 1)..(TextHi + 1)

WriteVals == {0, TRAP, 255}

\* The record of one call of write_byte: pre is the memory it met, start
\* the memory before the first call of the pair and given the value the
\* first call wrote.
Wrote(cmd, addr, val, w, pre, start, given) ==
    [cmd |-> cmd, addr |-> addr, val |-> val, ok |-> w.ok,
     orig_byte |-> w.orig_byte, pre |-> pre, start |-> start, given |-> given]

InitWriteByte ==
    /\ inferior = "Some"
    /\ alive \in BOOLEAN
    /\ regs = NoRegs
    /\ mem \in PoolMems
    /\ leaked = 0
    /\ breakpoints = NoBreakpoints
    /\ loop = "prompt"
    /\ hist = NoHist
    /\ last = Did("start", <<>>)

\* write_byte(addr, val) on the memory as it is.
WriteByteCall(addr, val) ==
    /\ loop = "prompt"
    /\ \E w \in {write_byte(alive, mem, addr, val)} :
          /\ mem' = w.mem
          /\ last' = Wrote("write_byte", addr, val, w, mem, mem, val)
    /\ loop' = "written"
    /\ UNCHANGED <<inferior, alive, regs, leaked, breakpoints, hist>>

\* The call that follows a successful one immediately: write_byte at the
\* same address with the byte the first call returned.
WriteByteBack ==
    /\ loop = "written"
    /\ last.ok
    /\ \E w \in {write_byte(alive, mem, last.addr, last.orig_byte)} :
          /\ mem' = w.mem
          /\ last' = Wrote("write_back", last.addr, last.orig_byte, w, mem,
                           last.start, last.given)
    /\ loop' = "restored"
    /\ UNCHANGED <<inferior, alive, regs, leaked, breakpoints, hist>>

NextWriteByte ==
    \/ \E addr \in WriteAddrs, val \in WriteVals : WriteByteCall(addr, val)
    \/ WriteByteBack

SpecWriteByte == InitWriteByte /\ [][NextWriteByte]_vars

\* ========================================= print_backtrace on its own
\* The backtrace of a tracee stopped k frames below main, k up to
\* MaxDepth, on a well-formed chain: foo called from main and then from
\* itself.  frames is the tracee's call chain, innermost first: the
\* instruction pointer of each frame, that of main last.  Frame i has its
\* base pointer at FrameBase(i), where the saved base pointer of its
\* caller lies, with the return address into the caller above it.
MaxDepth == 3

FooAddrs == {a \in Text : get_function_from_addr(a) = "foo"}
MainAddrs == {a \in Text : get_function_from_addr(a) = "main"}

Chains ==
    UNION {{c \in [1..(k + 1) -> Text] :
              /\ c[k + 1] \in MainAddrs
              /\ \A i \in 1..k : c[i] \in FooAddrs} : k \in 0..MaxDepth}

FrameBase(i) == FooFrame + 2 * WordSize * (i - 1)

\* A word of the tracee that holds the address v.
AddrWord(v) ==
    [j \in 1..WordSize |-> IF j = 1 THEN v % 256 ELSE IF j = 2 THEN v \div 256 ELSE 0]

\* The memory of a tracee inside the calls of chain c: the text, and the
\* stack with the frame records of the callees and main's frame above.
ChainMem(c) ==
    LET k == Len(c) - 1
        stack == {FrameBase(i) + d : i \in 1..(k + 1), d \in {0, WordSize}}
    IN  [w \in {a \in WordAddrs : a \in Text} \cup stack |->
            IF w \in Text THEN Image[w]
            ELSE IF \E i \in 1..k : w = FrameBase(i)
            THEN AddrWord(FrameBase(((w - FooFrame) \div (2 * WordSize)) + 2))
            ELSE IF \E i \in 1..k : w = FrameBase(i) + WordSize
            THEN AddrWord(c[((w - WordSize - FooFrame) \div (2 * WordSize)) + 2])
            ELSE AddrWord(0)]

InitBacktrace ==
    \E c \in Chains :
        /\ inferior = "Some"
        /\ alive = TRUE
        /\ regs = [rip |-> c[1], rbp |-> FrameBase(1), cnt |-> 0, mode |-> "exit"]
        /\ mem = ChainMem(c)
        /\ leaked = 0
        /\ breakpoints = NoBreakpoints
        /\ loop = "prompt"
        /\ hist = [reg |-> {}, seen |-> {}, missed |-> {}, rewound |-> {},
                   cause |-> "signal", frames |-> c]
        /\ last = Did("start", <<>>)

NextBacktrace == CmdBacktrace

SpecBacktrace == InitBacktrace /\ [][NextBacktrace]_vars

\* ============================================ parse_address on its own
\* parse_address as a function of the spec token: a token is one of the
\* prefixes followed by up to MaxBody characters; the tokenizer
\* (split_whitespace) hands over no empty token and none with a blank.
MaxBody == 3

SpecPrefixes == {<<>>, <<"*", "0", "x">>, <<"*", "0", "X">>, <<"*">>, <<"0", "x">>, <<"+">>}

SpecChars == {"0", "1", "5", "f", "F", "o"}

SpecBodies == UNION {[1..n -> SpecChars] : n \in 0..MaxBody}

SpecTokens == {p \o b : p \in SpecPrefixes, b \in SpecBodies} \ {<<>>}

InitParse ==
    /\ inferior = "None"
    /\ alive = FALSE
    /\ regs = NoRegs
    /\ mem = NoMem
    /\ leaked = 0
    /\ breakpoints = NoBreakpoints
    /\ loop = "prompt"
    /\ hist = NoHist
    /\ \E tok \in SpecTokens : last = [cmd |-> "token", tok |-> tok, addr |-> -1]

\* parse_address(tok) on the token typed.
ParseToken ==
    /\ last.cmd = "token"
    /\ last' = [cmd |-> "parse_address", tok |-> last.tok, addr |-> parse_address(last.tok)]
    /\ UNCHANGED <<inferior, alive, regs, mem, leaked, breakpoints, loop, hist>>

NextParse == ParseToken

SpecParse == InitParse /\ [][NextParse]_vars

\* ============================================================== claims
\* The debugger is at the prompt over a live, stopped tracee.
AtPromptStopped == loop = "prompt" /\ inferior = "Some" /\ alive

\* The last command ran the continue protocol.
RanCont == last.cmd \in {"Run", "Continue"} /\ last.contPre # "none"

\* Position of the first occurrence of request op in log, 0 when absent.
FirstAt(log, op) ==
    IF \E i \in 1..Len(log) : log[i] = op
    THEN CHOOSE i \in 1..Len(log) : log[i] = op /\ \A j \in 1..(i - 1) : log[j] # op
    ELSE 0

\* C1 (trap-present invariant): whenever the tracee is stopped and the
\* debugger is at the prompt, every registered address that is mapped in
\* the tracee holds the trap byte 0xCC.
C1_TrapPresent ==
    AtPromptStopped =>
        \A a \in DOMAIN breakpoints \cap Mapped : ByteAt(mem, a) = TRAP

\* C2 (original-byte invariant): whenever the tracee is stopped at the
\* prompt, every record's original_byte is the byte the unmodified program
\* image has at that address.
C2_OriginalByte ==
    AtPromptStopped =>
        \A a \in DOMAIN breakpoints \cap Mapped :
            breakpoints[a].orig_byte = ImageByte(a)

\* C3 (repeated hits): a run or continue during which the tracee reaches a
\* registered address ends with the tracee stopped there; the tracee never
\* runs through the instruction at a registered address while continued.
C3_RepeatedHits ==
    RanCont => last.passed \cap DOMAIN breakpoints = {}

\* C4 (repair ordering): when the continue protocol starts with ip-1 in
\* the registry it writes the original byte back, sets the instruction
\* pointer, single-steps and waits, in this order and before continuing,
\* and the instruction the step executes at ip-1 is the original one, not
\* the trap byte.
C4_RepairOrdering ==
    (RanCont /\ last.hit /\ FirstAt(last.log, "step") > 0) =>
        /\ 0 < FirstAt(last.log, "poke")
        /\ \/ last.cmd = "Run"
           \/ FirstAt(last.log, "poke") < FirstAt(last.log, "setregs")
        /\ FirstAt(last.log, "setregs") < FirstAt(last.log, "step")
        /\ FirstAt(last.log, "cont") = 0
             \/ FirstAt(last.log, "step") + 1 < FirstAt(last.log, "cont")
        /\ last.exec = ImageByte(last.a)
        /\ last.exec # TRAP

\* The last command was a run whose launch reached the initial stop.
RunSpawned == last.cmd = "Run" /\ last.outcome = "StoppedTrap"

\* Address a holds the trap byte in memory m.
ArmedIn(m, a) == align_addr_to_word(a) \in DOMAIN m /\ ByteAt(m, a) = TRAP

\* C5 (breakpoints survive across run): every record of the registry
\* whose address is mapped in the new tracee is armed in it before it is
\* first continued, with original_byte refreshed from it, and the tracee
\* stops at a registered address the first time it executes it.
C5_SurviveRun ==
    /\ RunSpawned =>
         \A a \in DOMAIN breakpoints \cap Mapped :
            ArmedIn(last.newMem, a) /\ breakpoints[a].orig_byte = ImageByte(a)
    /\ hist.missed = {}

\* C6 (at most one live child): the debugger never has more than one live
\* child, and none once the command loop has returned.
C6_AtMostOneLiveChild ==
    /\ LiveChildren <= 1
    /\ loop = "returned" => LiveChildren = 0

\* C7 (no leaked tracee on spawn failure): a run whose launch did not
\* reach the initial SIGTRAP stop retains no tracee and leaves no live
\* child behind.
C7_SpawnFailureReaps ==
    (last.cmd = "Run" /\ last.outcome # "StoppedTrap") =>
        /\ last.contPre = "none"
        /\ LiveChildren = 0

\* C8 (continue-protocol precondition): the continue protocol only ever
\* starts on a live, stopped tracee; a continue or backtrace issued when
\* the tracee is gone reports "no process" and issues no request.
C8_ContPrecondition ==
    /\ last.contPre # "dead"
    /\ (last.cmd \in {"Continue", "Backtrace"} /\ ~last.preLive) =>
          last.out = <<Msg("no process", 0, "")>> /\ last.log = <<>>

\* C9 (the debugger never terminates because of the tracee): whatever the
\* tracee does, a run or a backtrace prints and returns to the prompt;
\* neither ends the command loop.
C9_NeverPanics ==
    last.cmd \in {"Run", "Backtrace"} => loop = "prompt"

\* C10 (break registers the address): after a break whose spec resolved to
\* a mapped address the record is in the registry and success was
\* reported; with no live tracee the record holds 0 and no request was
\* issued, with a stopped tracee the byte at the address is 0xCC.
C10_BreakRegisters ==
    (last.cmd = "Break" /\ last.addr \in Mapped) =>
        /\ last.addr \in DOMAIN breakpoints
        /\ last.out \in {<<Msg("set", 0, "")>>, <<Msg("set while stopped", 0, "")>>}
        /\ IF last.preLive
           THEN ByteAt(mem, last.addr) = TRAP /\ last.log = <<"peek", "poke">>
           ELSE breakpoints[last.addr].orig_byte = 0 /\ last.log = <<>>

\* The byte addresses of the words of memory m.
ByteAddrs(m) == {w + k : w \in DOMAIN m, k \in 0..(WordSize - 1)}

\* C11 (write_byte round trip): when write_byte(a, v) has succeeded and
\* returned b, the write_byte(a, b) that follows immediately succeeds,
\* returns v and leaves the memory as it was before the first call.
C11_RoundTrip ==
    last.cmd = "write_back" =>
        /\ last.ok
        /\ last.orig_byte = last.given
        /\ mem = last.start

\* C11 witness: a round trip at an offset inside the word that put the
\* trap byte over a different byte and took it out again.
C11_Witness ==
    /\ last.cmd = "write_back" /\ last.ok
    /\ last.addr % WordSize = 5
    /\ last.given = TRAP /\ last.val # TRAP
    /\ ByteAt(last.pre, last.addr) = TRAP
    /\ ByteAt(mem, last.addr) = last.val

\* C12 (write_byte result and frame): a write_byte that succeeds returns
\* the byte that was at the address and leaves memory differing from what
\* it met in that byte only, which now holds the value; it succeeds
\* exactly when ptrace can reach the word; one that fails returns an
\* error and leaves memory as it was.
C12_ResultAndFrame ==
    last.cmd \in {"write_byte", "write_back"} =>
        /\ last.ok = (alive /\ align_addr_to_word(last.addr) \in DOMAIN last.pre)
        /\ IF last.ok
           THEN /\ last.orig_byte = ByteAt(last.pre, last.addr)
                /\ DOMAIN mem = DOMAIN last.pre
                /\ ByteAt(mem, last.addr) = last.val
                /\ \A b \in ByteAddrs(mem) \ {last.addr} :
                      ByteAt(mem, b) = ByteAt(last.pre, b)
           ELSE mem = last.pre

\* C12 witness: a write of the trap byte over the last byte of the first
\* word, which held another byte, next to a word that holds other bytes.
C12_Witness ==
    /\ last.cmd = "write_byte" /\ last.ok
    /\ last.addr = TextLo + WordSize - 1
    /\ last.val = TRAP /\ last.orig_byte = Op.work
    /\ ByteAt(mem, last.addr + 1) = Op.loop

\* C13 (zero instruction pointer): a continue issued with the tracee
\* stopped at instruction pointer 0 does not panic on ip - 1; the stop is
\* not taken for a breakpoint, no repair is made and the tracee is
\* continued, the debugger returning to the prompt.
C13_ZeroIp ==
    [][(inferior = "Some" /\ alive /\ regs.rip = 0 /\ last'.cmd = "Continue") =>
          /\ loop' = "prompt"
          /\ last'.res = "Ok" /\ ~last'.hit
          /\ last'.log = <<"getregs", "cont", "wait">>]_vars

\* C14 (continue and backtrace with no tracee are no-ops): with no
\* tracee held by the session, a continue or a backtrace prints its "no
\* process" report and nothing else happens: no ptrace request, no spawn,
\* and the registry and the rest of the session state stay as they were.
C14_NoTraceeNoOp ==
    [][(inferior = "None" /\ last'.cmd \in {"Continue", "Backtrace"}) =>
          /\ last'.out = <<Msg("no process", 0, "")>>
          /\ last'.log = <<>>
          /\ UNCHANGED <<inferior, alive, regs, mem, leaked, breakpoints, loop, hist>>]_vars

\* C14 witness: a backtrace answered "no process" in a session that has
\* two breakpoints registered and has never held a tracee.
C14_Witness ==
    /\ inferior = "None"
    /\ last.cmd = "Backtrace"
    /\ last.out = <<Msg("no process", 0, "")>>
    /\ Cardinality(DOMAIN breakpoints) = 2

\* C15 (backtrace order): for a tracee stopped k frames below main on a
\* well-formed frame-pointer chain, backtrace prints the k + 1 frames of
\* the chain and nothing else, innermost first and main last, after two
\* reads per frame below main, and returns to the prompt.
C15_BacktraceOrder ==
    last.cmd = "Backtrace" =>
        /\ last.res = "Ok" /\ loop = "prompt"
        /\ last.out = [i \in 1..Len(hist.frames) |->
                          Msg("frame", get_line_from_addr(hist.frames[i]),
                              get_function_from_addr(hist.frames[i]))]
        /\ last.log = <<"getregs">> \o [i \in 1..(2 * (Len(hist.frames) - 1)) |-> "peek"]

\* C15 witness: a backtrace two frames below main printed foo at line 6,
\* its caller foo at line 5 and main at line 10.
C15_Witness ==
    /\ last.cmd = "Backtrace"
    /\ hist.frames = <<16, 15, 17>>
    /\ last.out = <<Msg("frame", 6, "foo"), Msg("frame", 5, "foo"), Msg("frame", 10, "main")>>

\* The value of a digit character, 99 for a character that is no digit.
DigitVal(c) ==
    CASE c = "0" -> 0 [] c = "1" -> 1 [] c = "2" -> 2 [] c = "3" -> 3
      [] c = "4" -> 4 [] c = "5" -> 5 [] c = "6" -> 6 [] c = "7" -> 7
      [] c = "8" -> 8 [] c = "9" -> 9
      [] c \in {"a", "A"} -> 10 [] c \in {"b", "B"} -> 11 [] c \in {"c", "C"} -> 12
      [] c \in {"d", "D"} -> 13 [] c \in {"e", "E"} -> 14 [] c \in {"f", "F"} -> 15
      [] OTHER -> 99

\* The number a numeral denotes in the radix (an optional "+", then one
\* digit or more), or -1 when the text is no numeral.
Numeral(t, radix) ==
    LET d == IF t # <<>> /\ t[1] = "+" THEN SubSeq(t, 2, Len(t)) ELSE t
        upto[i \in 0..Len(d)] == IF i = 0 THEN 0 ELSE upto[i - 1] * radix + DigitVal(d[i])
    IN  IF d = <<>> \/ \E i \in 1..Len(d) : DigitVal(d[i]) >= radix THEN -1
        ELSE upto[Len(d)]

\* The token has the raw-address prefix, in either case.
IsRaw(t) == Len(t) >= 3 /\ t[1] = "*" /\ t[2] = "0" /\ t[3] \in {"x", "X"}

\* C16 (breakpoint spec resolution): every token is resolved by exactly
\* one of three rules, tried in this order: with the *0x prefix (either
\* case) the address is the base-16 value of the rest, and nothing else is
\* tried; otherwise a decimal numeral is a line number resolved by the
\* line lookup; otherwise the token is a function name resolved by the
\* function lookup.  A *0x spec therefore yields the address itself, the
\* one a line or function spec resolving to that address yields.
C16_SpecResolution ==
    last.cmd = "parse_address" =>
        CASE IsRaw(last.tok) ->
               last.addr = Numeral(SubSeq(last.tok, 4, Len(last.tok)), 16)
          [] ~IsRaw(last.tok) /\ Numeral(last.tok, 10) >= 0 ->
               last.addr = get_addr_for_line(Numeral(last.tok, 10))
          [] OTHER ->
               last.addr = get_addr_for_function(last.tok)

\* C16 witness: the raw spec *0XF resolved to the address that the
\* function spec foo and the line spec 5 resolve to.
C16_Witness ==
    /\ last.cmd = "parse_address"
    /\ last.tok = <<"*", "0", "X", "F">>
    /\ last.addr = get_addr_for_function(<<"f", "o", "o">>)
    /\ last.addr = get_addr_for_line(5)

\* C17 (repair only after a breakpoint stop): the continue protocol sets
\* the instruction pointer back and single-steps only when it starts from
\* a stop that the trap byte of a registered breakpoint caused; it does
\* not from the initial stop of a run nor from a stop a signal caused.
C17_RepairOnlyAfterTrap ==
    [][FirstAt(last'.log, "setregs") > 0 =>
          last'.cmd = "Continue" /\ hist.cause = "trap"]_vars

\* C18 (failed break leaves state unchanged): a break whose spec does not
\* resolve to an address, or whose address ptrace cannot write in the
\* tracee the session holds, prints a diagnostic and changes nothing: the
\* registry, the tracee's memory and the rest of the session stay as they
\* were, and the debugger is at the prompt.
C18_FailedBreak ==
    [][(/\ last'.cmd = "Break"
        /\ \/ last'.addr < 0
           \/ /\ inferior = "Some"
              /\ ~PtraceOk(alive, mem, align_addr_to_word(last'.addr))) =>
          /\ last'.out \in {<<Msg("invalid address", 0, "")>>, <<Msg("cannot set", 0, "")>>}
          /\ (last'.addr < 0) = (last'.out = <<Msg("invalid address", 0, "")>>)
          /\ loop' = "prompt"
          /\ UNCHANGED <<inferior, alive, regs, mem, leaked, breakpoints, loop, hist>>]_vars

\* C18 witness: with a stopped tracee and two breakpoints armed in it, a
\* break at an address that is not mapped was refused.
C18_Witness ==
    /\ AtPromptStopped
    /\ last.cmd = "Break" /\ last.addr = 64
    /\ last.out = <<Msg("cannot set", 0, "")>>
    /\ Cardinality(DOMAIN breakpoints) = 2
    /\ \A a \in DOMAIN breakpoints : ByteAt(mem, a) = TRAP

\* C19 (registry is retained): no step removes a registered address; the
\* key set changes only by a break that reports success, which adds the
\* address it resolved; run, continue, backtrace, quit and the exit or
\* kill of the tracee leave the key set as it was; and every record's
\* addr field is its key.
C19_RegistryRetained ==
    [][/\ DOMAIN breakpoints \subseteq DOMAIN breakpoints'
       /\ DOMAIN breakpoints' # DOMAIN breakpoints =>
            /\ last'.cmd = "Break"
            /\ last'.out \in {<<Msg("set", 0, "")>>, <<Msg("set while stopped", 0, "")>>}
            /\ DOMAIN breakpoints' = DOMAIN breakpoints \cup {last'.addr}
       /\ \A a \in DOMAIN breakpoints' : breakpoints'[a].addr = a]_vars

\* C19 witness: a registry of two addresses, both set before the run, is
\* whole after the tracee has been launched, continued and has exited.
C19_Witness ==
    /\ Cardinality(DOMAIN breakpoints) = 2
    /\ hist.reg = DOMAIN breakpoints
    /\ last.cmd = "Continue" /\ last.res = "Ok"
    /\ last.status.kind = "Exited" /\ ~alive
    /\ \A a \in DOMAIN breakpoints : breakpoints[a].addr = a

\* C20 (backtrace always ends without crashing): whatever state the
\* tracee is stopped in, a backtrace neither panics nor walks forever: it
\* ends after main, at a failed read, or at a frame the debug information
\* does not resolve, and the debugger is at the prompt again.
C20_BacktraceEnds ==
    last.cmd = "Backtrace" =>
        /\ last.res \notin {"Panic", "Hang"}
        /\ loop = "prompt"

\* The line of output is a line of the source file.
IsSource(line) == line.k = "source"

\* The 1-based numbers of the source lines printed in out, in the order
\* printed: entry i of target_lines is line i + 1 of the file.
PrintedLines(out) ==
    LET src == SelectSeq(out, IsSource)
    IN  [i \in 1..Len(src) |-> src[i].n + 1]

\* The lines n-1, n, n+1 of a file of NumLines lines, those that exist,
\* in ascending order.
Window(n) ==
    LET lo == IF n - 1 >= 1 THEN n - 1 ELSE 1
        hi == IF n + 1 <= NumLines THEN n + 1 ELSE NumLines
    IN  [i \in 1..(hi - lo + 1) |-> lo + i - 1]

\* C21 (context window): when the status reported is a stop at an address
\* that resolves to source line n, the source lines printed are the lines
\* n-1, n, n+1 of the file, those that exist: a window centred on line n.
C21_ContextWindow ==
    (RanCont /\ last.res = "Ok" /\ last.status.kind = "Stopped"
       /\ LineKnown(last.status.rip)) =>
        PrintedLines(last.out) = Window(get_line_from_addr(last.status.rip))

====
